---- MODULE Spec2Model ----
(***************************************************************************)
(* Model of bashfuscator/lib/string_obfuscators.py: the string obfuscators *)
(* FileGlob, FolderGlob (GlobObfuscator), HexHash and XorNonNull.          *)
(*                                                                         *)
(* Characters are their code points (ASCII), strings are sequences of      *)
(* code points, payload lines are records.                                 *)
(***************************************************************************)
EXTENDS Integers, Sequences, FiniteSets, TLC

VARIABLES
    mutator,      \* which mutate() ran: "none", "FileGlob", "FolderGlob", "HexHash", "XorNonNull"
    userCmd,      \* the command handed to mutate()
    sizePref,     \* self.sizePref, 1..3
    pc,           \* position inside the running mutate() / the emitted payload
    raised,       \* "none" or the name of the Python exception that left mutate()
    payload,      \* the lines handed to the mangler, in order
    keyLen,       \* XorNonNull.mutate: keyLen
    xorKeyBytes,  \* XorNonNull.mutate: xorKeyBytes (None until a key is found)
    attempts,     \* the key lengths genXorKey was called with, in order
    encoded,      \* XorNonNull.mutate: cmdBytes, xorKey and data once computed
    env,          \* the shell variables the running payload has assigned
    stdout,       \* what the emitted payload printed when it was run
    hexPos,       \* HexHash.mutate: 1-based position of ch in userCmd
    randomString, \* HexHash.mutate: randomString
    randomhash,   \* HexHash.mutate: randomhash
    md5           \* the digests computed so far: seed -> hexdigest

xorState == <<keyLen, xorKeyBytes, attempts, encoded, env, stdout>>

hexState == <<hexPos, randomString, randomhash, md5>>

vars == <<mutator, userCmd, sizePref, pc, raised, payload, xorState, hexState>>

\* Python's None, told apart from every byte string by a value no byte has
None == <<-1>>

\* the values of the variables a mutator does not use
xorIdle ==
    /\ keyLen = 0
    /\ xorKeyBytes = None
    /\ attempts = <<>>
    /\ encoded = [cmdBytes |-> <<>>, xorKey |-> <<>>, data |-> <<>>]
    /\ env = [cmdVar |-> <<>>, keyVar |-> <<>>]
    /\ stdout = <<>>

hexIdle ==
    /\ hexPos = 0
    /\ randomString = <<>>
    /\ randomhash = <<>>
    /\ md5 = <<>>

\* ------------------------------------------------------------------ bounds
MaxCmdLen == 3
LongLen == 10

\* ------------------------------------------------------- character codes
CharZero == 48
CharOne == 49
QMARK == 63
NEWLINE == 10
SQ == 39
DQ == 34
BACKSLASH == 92

\* ------------------------------------------------------------ arithmetic
Min(a, b) == IF a < b THEN a ELSE b

Max(a, b) == IF a > b THEN a ELSE b

CeilDiv(a, b) == (a + b - 1) \div b

RECURSIVE CeilLog2(_)
\* int(math.ceil(math.log(n, 2))) for n >= 1: the least k with 2^k >= n
CeilLog2(n) == IF n <= 1 THEN 0 ELSE 1 + CeilLog2((n + 1) \div 2)

\* all sequences over S of length 0..n
SeqsUpTo(S, n) == UNION {[1..k -> S] : k \in 0..n}

\* the string made of n copies of character c
Repeat(c, n) == [k \in 1..n |-> c]

RECURSIVE Perms(_)
\* every order in which the elements of S can be listed
Perms(S) ==
    IF S = {} THEN {<<>>}
    ELSE UNION {{<<x>> \o p : p \in Perms(S \ {x})} : x \in S}

RECURSIVE ConcatRange(_, _, _)
\* ss[lo] \o ... \o ss[hi], by halves
ConcatRange(ss, lo, hi) ==
    IF lo > hi THEN <<>>
    ELSE IF lo = hi THEN ss[lo]
    ELSE ConcatRange(ss, lo, (lo + hi) \div 2) \o ConcatRange(ss, ((lo + hi) \div 2) + 1, hi)

\* the concatenation of a sequence of sequences
Concat(ss) == ConcatRange(ss, 1, Len(ss))

\* ------------------------------------------------------ external helpers
\* bashfuscator.common.helpers.escapeQuotes: every ' becomes '"'"'
escapeQuotes(s) ==
    Concat([k \in 1..Len(s) |-> IF s[k] = SQ THEN <<SQ, DQ, SQ, DQ, SQ>> ELSE <<s[k]>>])

\* ------------------------------------------------------- GlobObfuscator
\* setSizes: self.sectionSize from self.sizePref
sectionSizeOf(cmdLen, pref) ==
    IF pref = 1 THEN (cmdLen \div 10) + 1
    ELSE IF pref = 2 THEN (cmdLen \div 100) + 1
    ELSE 1

\* [cmd[i:i + size] for i in range(0, len(cmd), size)]
sections(cmd, size) ==
    [k \in 1..CeilDiv(Len(cmd), size) |->
        SubSeq(cmd, (k - 1) * size + 1, Min(Len(cmd), k * size))]

\* math.log(n, 2) raises ValueError (math domain error) for n <= 0
mathLogRaises(n) == n <= 0

\* cmdLogLen without the clamp to 1 (a faulty variant)
cmdLogLenNoClamp(cmdLen) == CeilLog2(cmdLen)

\* the index width: ceil(log2(cmdLen)), at least 1
cmdLogLen(cmdLen) == IF CeilLog2(cmdLen) <= 0 THEN 1 ELSE CeilLog2(cmdLen)

RECURSIVE Binary(_)
\* the binary digits of i, most significant first, as characters '0'/'1'
Binary(i) ==
    IF i < 2 THEN <<CharZero + i>>
    ELSE Binary(i \div 2) \o <<CharZero + (i % 2)>>

\* format(i, "0" + str(width) + "b"): zero-padded to at least width
formatBinary(i, width) ==
    Repeat(CharZero, Max(0, width - Len(Binary(i)))) \o Binary(i)

\* str.replace for single characters
replace(s, old, new) == [k \in 1..Len(s) |-> IF s[k] = old THEN new ELSE s[k]]

\* the file name of chunk i (0-based)
fileName(i, width) ==
    replace(replace(formatBinary(i, width), CharZero, QMARK), CharOne, NEWLINE)

Line(op, dir, name, data) == [op |-> op, dir |-> dir, name |-> name, data |-> data]

\* generate(userCmd, writeableDir): the lines added to the mangler, or the
\* exception raised by math.log(0, 2). order is the order chosen by
\* addLinesInRandomOrder for the printf lines.
generate(cmd, startingDir, writeableDir, size, order) ==
    LET workingDir == IF writeableDir # <<>>
                      THEN startingDir \o <<escapeQuotes(writeableDir)>>
                      ELSE startingDir
        cmdChars == sections(cmd, size)
        cmdLen == Len(cmdChars)
        width == cmdLogLen(cmdLen)
        printLines == [i \in 1..cmdLen |->
            Line("printf", workingDir, fileName(i - 1, width), escapeQuotes(cmdChars[i]))]
    IN  IF mathLogRaises(cmdLen)
        THEN [raised |-> "ValueError", lines |-> <<>>, workingDir |-> workingDir]
        ELSE [raised |-> "none",
              lines |-> <<Line("mkdir", workingDir, <<>>, <<>>)>>
                        \o [k \in 1..cmdLen |-> printLines[order[k]]]
                        \o <<Line("cat", workingDir, Repeat(QMARK, width), <<>>),
                             Line("rm", workingDir, Repeat(QMARK, width), <<>>)>>,
              workingDir |-> workingDir]

\* the number of printf lines generate() builds for cmd
sectionCount(cmd, size) == Len(sections(cmd, size))

\* randGen.randUniqueStr(): the k-th unique string handed out
randUniqueStr(k) == <<CharZero + k>>

\* setSizes: self.startingDir = writeDir + the first unique string
startingDirOf == <<randUniqueStr(0)>>

\* FileGlob.mutate
FileGlobMutate ==
    /\ pc = "start"
    /\ \E order \in Perms(1..sectionCount(userCmd, sectionSizeOf(Len(userCmd), sizePref))) :
        LET g == generate(userCmd, startingDirOf, <<>>,
                          sectionSizeOf(Len(userCmd), sizePref), order)
        IN  /\ mutator' = "FileGlob"
            /\ raised' = g.raised
            /\ IF g.raised # "none"
               THEN /\ payload' = <<>>
                    /\ pc' = "raised"
               ELSE /\ payload' = g.lines \o <<Line("rmdir", g.workingDir, <<>>, <<>>)>>
                    /\ pc' = "done"
    /\ UNCHANGED <<userCmd, sizePref, xorState, hexState>>

\* the orders addLinesInRandomOrder may choose, one per chunk of FolderGlob
folderOrders(chunks, size) ==
    {o \in [1..Len(chunks) -> UNION {Perms(1..sectionCount(chunks[k], size)) : k \in 1..Len(chunks)}] :
        \A k \in 1..Len(chunks) : o[k] \in Perms(1..sectionCount(chunks[k], size))}

\* FolderGlob.mutate
FolderGlobMutate ==
    /\ pc = "start"
    /\ LET size == sectionSizeOf(Len(userCmd), sizePref)
           cmdChunks == sections(userCmd, size)
       IN  \E orders \in folderOrders(cmdChunks, size) :
            LET gen == [k \in 1..Len(cmdChunks) |->
                          generate(cmdChunks[k], startingDirOf, randUniqueStr(k), size, orders[k])]
                bad == {k \in 1..Len(cmdChunks) : gen[k].raised # "none"}
            IN  /\ mutator' = "FolderGlob"
                /\ IF bad # {}
                   THEN /\ raised' = "ValueError"
                        /\ payload' = <<>>
                        /\ pc' = "raised"
                   ELSE /\ raised' = "none"
                        /\ payload' =
                              Concat([k \in 1..Len(cmdChunks) |->
                                  gen[k].lines \o <<Line("rmdir", gen[k].workingDir, <<>>, <<>>)>>])
                              \o <<Line("rmdir", startingDirOf, <<>>, <<>>)>>
                        /\ pc' = "done"
    /\ UNCHANGED <<userCmd, sizePref, xorState, hexState>>

\* the characters of the commands handed to the glob obfuscators
GlobChars == {105, 100}

\* the commands and size preferences tried: every short command with every
\* preference, and the long commands with preference 1 (sectionSize 2)
GlobInputs ==
    (SeqsUpTo(GlobChars, MaxCmdLen) \X (1..3))
    \cup {<<Repeat(c, n), 1>> : c \in GlobChars, n \in LongLen..LongLen}

InitGlob ==
    /\ mutator = "none"
    /\ \E in \in GlobInputs : userCmd = in[1] /\ sizePref = in[2]
    /\ pc = "start"
    /\ raised = "none"
    /\ payload = <<>>
    /\ xorIdle
    /\ hexIdle

NextGlob == FileGlobMutate \/ FolderGlobMutate

SpecGlob == InitGlob /\ [][NextGlob]_vars

\* ------------------------------------------- the shell running a glob payload
RECURSIVE LexLess(_, _)
\* a sorts strictly before b, character by character by code point
LexLess(a, b) ==
    IF b = <<>> THEN FALSE
    ELSE IF a = <<>> THEN TRUE
    ELSE IF Head(a) # Head(b) THEN Head(a) < Head(b)
    ELSE LexLess(Tail(a), Tail(b))

\* the one element of a one-element set
The(S) == CHOOSE v \in S : TRUE

\* one character of a shell word made of '...' and "..." pieces (no
\* expansions): the quoting mode after it and what it adds to the value
shellStep(mode, c) ==
    IF mode = "sq"
    THEN (IF c = SQ THEN [mode |-> "out", out |-> <<>>] ELSE [mode |-> "sq", out |-> <<c>>])
    ELSE IF mode = "dq"
    THEN (IF c = DQ THEN [mode |-> "out", out |-> <<>>] ELSE [mode |-> "dq", out |-> <<c>>])
    ELSE IF c = SQ THEN [mode |-> "sq", out |-> <<>>]
    ELSE IF c = DQ THEN [mode |-> "dq", out |-> <<>>]
    ELSE [mode |-> "out", out |-> <<c>>]

\* reading a piece l and then a piece r, from each quoting mode
shellThen(l, r) ==
    [sq  |-> [mode |-> r[l.sq.mode].mode,  out |-> l.sq.out \o r[l.sq.mode].out],
     dq  |-> [mode |-> r[l.dq.mode].mode,  out |-> l.dq.out \o r[l.dq.mode].out],
     out |-> [mode |-> r[l.out.mode].mode, out |-> l.out.out \o r[l.out.mode].out]]

RECURSIVE shellScan(_, _, _)
\* reading s[lo..hi] left to right from each quoting mode, by halves
shellScan(s, lo, hi) ==
    IF lo > hi
    THEN [sq |-> [mode |-> "sq", out |-> <<>>], dq |-> [mode |-> "dq", out |-> <<>>],
          out |-> [mode |-> "out", out |-> <<>>]]
    ELSE IF lo = hi
    THEN [sq |-> shellStep("sq", s[lo]), dq |-> shellStep("dq", s[lo]),
          out |-> shellStep("out", s[lo])]
    ELSE The({shellThen(l, r) : l \in {shellScan(s, lo, (lo + hi) \div 2)},
                                r \in {shellScan(s, ((lo + hi) \div 2) + 1, hi)}})

\* the value of the shell word s read from quoting mode mode
shellWordFrom(s, mode) == The({shellScan(w, 1, Len(w))[mode].out : w \in {s}})

\* the value of the template field 'DATA' once DATA is filled in
shellQuoted(data) == shellWordFrom(<<SQ>> \o data \o <<SQ>>, "out")

\* the printf lines of a payload that wrote a file matched by dir/wildcard
\* (each ? matches exactly one character)
matched(lines, dir, wildcard) ==
    {k \in 1..Len(lines) :
        /\ lines[k].op = "printf"
        /\ lines[k].dir = dir
        /\ Len(lines[k].name) = Len(wildcard)}

RECURSIVE catSorted(_, _)
\* the contents of the files ks, concatenated in sorted file name order
catSorted(lines, ks) ==
    IF ks = {} THEN <<>>
    ELSE LET first == CHOOSE k \in ks :
                 \A j \in ks \ {k} : LexLess(lines[k].name, lines[j].name)
         IN  shellQuoted(lines[first].data) \o catSorted(lines, ks \ {first})

\* what the cat lines of a payload print, in payload order
catOutput(lines) ==
    Concat([k \in 1..Len(lines) |->
        IF lines[k].op = "cat"
        THEN catSorted(SubSeq(lines, 1, k), matched(SubSeq(lines, 1, k), lines[k].dir, lines[k].name))
        ELSE <<>>])

\* the positions of the lines of a payload with operation op
at(lines, op) == {k \in 1..Len(lines) : lines[k].op = op}

\* dir or one of its parents (mkdir -p creates them all)
isPrefix(d, dir) == Len(d) <= Len(dir) /\ SubSeq(dir, 1, Len(d)) = d

\* ------------------------------------------------------- claims on the globs
FileGlobDone == mutator = "FileGlob" /\ pc = "done"

\* C1: the file name of chunk i sorts strictly before the file name of chunk
\* j for all i < j (the character for digit 1 sorts after the one for digit
\* 0), so reading the files back in sorted order gives the command back.
C1_FileNamesInChunkOrder ==
    FileGlobDone =>
        LET n == Len(payload) - 4
            width == Len(payload[n + 2].name)
        IN  /\ \A i \in 0..(n - 1) : \A j \in 0..(n - 1) :
                  i < j => LexLess(fileName(i, width), fileName(j, width))
            /\ catOutput(payload) = userCmd

\* C3: for the empty command FileGlob.mutate completes and emits the mkdir
\* and the rmdir line and no printf, cat or rm line.
C3_EmptyCommandGlob ==
    (mutator = "FileGlob" /\ userCmd = <<>>) =>
        /\ pc = "done"
        /\ at(payload, "mkdir") # {}
        /\ at(payload, "rmdir") # {}
        /\ at(payload, "printf") = {}
        /\ at(payload, "cat") = {}
        /\ at(payload, "rm") = {}

\* the directories a payload creates (mkdir -p) or removes
directories(lines) ==
    {lines[k].dir : k \in at(lines, "rmdir")}
    \cup UNION {{SubSeq(lines[k].dir, 1, m) : m \in 1..Len(lines[k].dir)} : k \in at(lines, "mkdir")}

\* C7: FolderGlob's payload involves ceil(len/sectionSize) + 1 directories,
\* each created before it is removed, each subdirectory removed after its
\* chunk was read back, the starting directory removed last, and no
\* directory removed that was never created.
C7_FolderGlobDirectories ==
    (mutator = "FolderGlob") =>
        /\ pc = "done"
        /\ Cardinality(directories(payload)) =
              CeilDiv(Len(userCmd), sectionSizeOf(Len(userCmd), sizePref)) + 1
        /\ \A d \in directories(payload) :
              \E r \in at(payload, "rmdir") :
                  /\ payload[r].dir = d
                  /\ \E m \in at(payload, "mkdir") : m < r /\ isPrefix(d, payload[m].dir)
        /\ \A r \in at(payload, "rmdir") :
              /\ \E m \in at(payload, "mkdir") : m < r /\ isPrefix(payload[r].dir, payload[m].dir)
              /\ payload[r].dir # startingDirOf =>
                    \E c \in at(payload, "cat") : c < r /\ payload[c].dir = payload[r].dir
        /\ payload[Len(payload)] = Line("rmdir", startingDirOf, <<>>, <<>>)

\* C9: in FileGlob's payload the mkdir line precedes every printf line, every
\* printf line precedes the cat line, cat precedes rm, rm precedes rmdir, and
\* the cat and rm wildcards are as many ? as the file names are wide.
C9_FileGlobLineOrder ==
    FileGlobDone =>
        /\ \A op \in {"mkdir", "cat", "rm", "rmdir"} : Cardinality(at(payload, op)) = 1
        /\ Cardinality(at(payload, "printf")) =
              CeilDiv(Len(userCmd), sectionSizeOf(Len(userCmd), sizePref))
        /\ \A m \in at(payload, "mkdir") : \A f \in at(payload, "printf") : m < f
        /\ \A f \in at(payload, "printf") : \A c \in at(payload, "cat") : f < c
        /\ \A c \in at(payload, "cat") : \A r \in at(payload, "rm") : c < r
        /\ \A r \in at(payload, "rm") : \A d \in at(payload, "rmdir") : r < d
        /\ \A w \in at(payload, "cat") \cup at(payload, "rm") :
              /\ \A k \in 1..Len(payload[w].name) : payload[w].name[k] = QMARK
              /\ \A f \in at(payload, "printf") : Len(payload[f].name) = Len(payload[w].name)

\* a FileGlob payload whose printf lines are not in chunk order
C9_Witness ==
    /\ FileGlobDone
    /\ Cardinality(at(payload, "printf")) >= 3
    /\ payload[2].name # fileName(0, Len(payload[2].name))

\* ------------------------------------------------------------ XorNonNull
\* RandomGen._randStrCharList: the characters random strings are drawn from
randStrCharList == {SQ, BACKSLASH}

\* the characters of the commands handed to XorNonNull
XorChars == {SQ, BACKSLASH, 123}

RECURSIVE BitXor(_, _)
\* a ^ b on non-negative integers
BitXor(a, b) ==
    IF a = 0 /\ b = 0 THEN 0
    ELSE (((a % 2) + (b % 2)) % 2) + 2 * BitXor(a \div 2, b \div 2)

\* nullchars with the stride taken one position too late (a faulty variant)
nullcharsShifted(i, len, cmd) ==
    {cmd[p] : p \in {q \in 1..Len(cmd) : q - 1 >= i + 1 /\ (q - 1 - (i + 1)) % len = 0}}

\* set(userCmd[i::keyLen]), i 0-based
nullchars(i, len, cmd) ==
    {cmd[p] : p \in {q \in 1..Len(cmd) : q - 1 >= i /\ (q - 1 - i) % len = 0}}

\* charBlackList with nothing removed from the copy (a faulty variant)
charBlackListKeepsAll(nulls) == randStrCharList

\* charBlackList that leaves no replacement (a faulty variant)
charBlackListEmpty(nulls) == {}

\* the copy of _randStrCharList with every character of nullchars removed
charBlackList(nulls) == randStrCharList \ nulls

RECURSIVE genXorKeyFrom(_, _, _, _)
\* the for loop of genXorKey from position i (0-based) on: the set of
\* results randSelect can lead to, None or the finished key
genXorKeyFrom(i, key, len, cmd) ==
    IF i >= len THEN {key}
    ELSE IF key[i + 1] \in nullchars(i, len, cmd)
         THEN IF Cardinality(charBlackList(nullchars(i, len, cmd))) > 0
              THEN UNION {genXorKeyFrom(i + 1, [key EXCEPT ![i + 1] = c], len, cmd) :
                            c \in charBlackList(nullchars(i, len, cmd))}
              ELSE {None}
         ELSE genXorKeyFrom(i + 1, key, len, cmd)

\* genXorKey(keyLen, userCmd) when randGenStr returned rand
genXorKey(len, cmd, rand) == genXorKeyFrom(0, rand, len, cmd)

\* initialKeyLen without the + 1 (a faulty variant)
initialKeyLenNoPlusOne(cmdLen, pref) ==
    IF pref = 1 THEN cmdLen \div 100
    ELSE IF pref = 2 THEN cmdLen \div 10
    ELSE cmdLen

\* keyLen before the search loop, from self.sizePref
initialKeyLen(cmdLen, pref) ==
    IF pref = 1 THEN (cmdLen \div 100) + 1
    ELSE IF pref = 2 THEN (cmdLen \div 10) + 1
    ELSE cmdLen

\* "not xorKeyBytes": None and the empty bytearray are false
falsy(x) == x = None \/ x = <<>>

\* xorBytes with the key started one position late (a faulty variant)
xorBytesShifted(cmd, key, len) ==
    [i \in 1..Len(cmd) |-> BitXor(cmd[i], key[(i % len) + 1])]

\* cmdBytes[i] ^= xorKeyBytes[i % keyLen] for every i
xorBytes(cmd, key, len) ==
    [i \in 1..Len(cmd) |-> BitXor(cmd[i], key[((i - 1) % len) + 1])]

XLine(op, var, test, text, quote) ==
    [op |-> op, var |-> var, test |-> test, text |-> text, quote |-> quote]

\* the four perlEscapes lines, in the order the source lists them
perlEscapes ==
    << XLine("guard", "cmdChar", <<SQ>>, <<BACKSLASH, BACKSLASH, SQ>>, "dq"),
       XLine("guard", "keyChar", <<SQ>>, <<BACKSLASH, BACKSLASH, SQ>>, "dq"),
       XLine("guard", "cmdChar", <<BACKSLASH, BACKSLASH>>, <<BACKSLASH, BACKSLASH>>, "sq"),
       XLine("guard", "keyChar", <<BACKSLASH, BACKSLASH>>, <<BACKSLASH, BACKSLASH>>, "sq") >>

\* the lines mutate() hands to the mangler, given xorKey and data; varOrder
\* and escOrder are the orders addLinesInRandomOrder chooses
xorPayload(xorKey, data, varOrder, escOrder) ==
    LET variableInstantiations ==
            << XLine("assign", "cmdVar", <<>>, data, "sq"),
               XLine("assign", "keyVar", <<>>, xorKey, "sq") >>
    IN  [k \in 1..2 |-> variableInstantiations[varOrder[k]]]
        \o << XLine("for", "cmdVar", <<>>, <<>>, ""),
               XLine("substr", "cmdChar", <<>>, <<>>, ""),
               XLine("mod", "keyChar", <<>>, <<>>, ""),
               XLine("substr", "keyChar", <<>>, <<>>, "") >>
        \o [k \in 1..4 |-> perlEscapes[escOrder[k]]]
        \o << XLine("perl", "", <<>>, <<>>, ""),
               XLine("done", "", <<>>, <<>>, "") >>

\* ---------------------------------------------- the shell running the decoder
RECURSIVE bashDQ(_)
\* the value of the double-quoted string "s": \\ \" \$ \` lose their backslash
bashDQ(s) ==
    IF s = <<>> THEN <<>>
    ELSE IF Head(s) = BACKSLASH /\ Len(s) >= 2 /\ s[2] \in {BACKSLASH, DQ, 36, 96}
         THEN <<s[2]>> \o bashDQ(SubSeq(s, 3, Len(s)))
    ELSE <<Head(s)>> \o bashDQ(Tail(s))

\* a shell variable cannot hold a NUL byte: the shell drops it
dropNul(s) == SelectSeq(s, LAMBDA c : c # 0)

\* the value assigned by the payload's line var='...'
assigned(lines, var) ==
    LET k == CHOOSE j \in 1..Len(lines) : lines[j].op = "assign" /\ lines[j].var = var
    IN  dropNul(shellQuoted(lines[k].text))

\* [[ "$v" == "test" ]] && v=subst
guarded(line, value) ==
    IF value = bashDQ(line.test)
    THEN (IF line.quote = "dq" THEN bashDQ(line.text) ELSE line.text)
    ELSE value

RECURSIVE guardedAll(_, _, _)
\* the guard lines of the payload applied in payload order to variable var
guardedAll(lines, var, value) ==
    IF lines = <<>> THEN value
    ELSE guardedAll(Tail(lines), var,
            IF Head(lines).op = "guard" /\ Head(lines).var = var
            THEN guarded(Head(lines), value) ELSE value)

RECURSIVE perlSingleQuoted(_)
\* perl's reading of the literal '...' whose text after the opening quote is
\* s: \\ and \' are escapes, a bare ' or a trailing \ is a syntax error
perlSingleQuoted(s) ==
    IF s = <<>> THEN [ok |-> TRUE, val |-> <<>>]
    ELSE IF Head(s) = SQ THEN [ok |-> FALSE, val |-> <<>>]
    ELSE IF Head(s) = BACKSLASH /\ Len(s) = 1 THEN [ok |-> FALSE, val |-> <<>>]
    ELSE IF Head(s) = BACKSLASH /\ s[2] \in {BACKSLASH, SQ}
         THEN LET r == perlSingleQuoted(SubSeq(s, 3, Len(s)))
              IN  [ok |-> r.ok, val |-> <<s[2]>> \o r.val]
    ELSE LET r == perlSingleQuoted(Tail(s))
         IN  [ok |-> r.ok, val |-> <<Head(s)>> \o r.val]

\* perl -e "print '$cmdChar' ^ '$keyChar'": the bytewise xor of the two
\* strings (the shorter padded with NUL), nothing on a syntax error
perlPrintXor(cmdChar, keyChar) ==
    LET a == perlSingleQuoted(cmdChar)
        b == perlSingleQuoted(keyChar)
        at0(v, k) == IF k <= Len(v) THEN v[k] ELSE 0
    IN  IF a.ok /\ b.ok
        THEN [k \in 1..Max(Len(a.val), Len(b.val)) |-> BitXor(at0(a.val, k), at0(b.val, k))]
        ELSE <<>>

\* ${v:i:1}
substr(v, i) == IF i + 1 <= Len(v) THEN <<v[i + 1]>> ELSE <<>>

\* what the for loop of the payload prints, given the shell variables
runLoop(lines, vars0) ==
    Concat([n \in 1..Len(vars0.cmdVar) |->
        perlPrintXor(guardedAll(lines, "cmdChar", substr(vars0.cmdVar, n - 1)),
                     guardedAll(lines, "keyChar",
                                substr(vars0.keyVar, (n - 1) % Len(vars0.keyVar))))])

\* --------------------------------------------------- XorNonNull.mutate
\* the cap on the key lengths the search tries
MaxKeyLen == MaxCmdLen + 3

\* mutate() up to the search loop
XorStart ==
    /\ pc = "start"
    /\ mutator' = "XorNonNull"
    /\ keyLen' = initialKeyLen(Len(userCmd), sizePref)
    /\ xorKeyBytes' = None
    /\ pc' = "search"
    /\ UNCHANGED <<userCmd, sizePref, raised, payload, attempts, encoded, env, stdout, hexState>>

\* one round of "while not xorKeyBytes"
XorSearch ==
    /\ pc = "search"
    /\ falsy(xorKeyBytes)
    /\ keyLen < MaxKeyLen
    /\ keyLen' = keyLen + 1
    /\ attempts' = Append(attempts, keyLen')
    /\ \E rand \in [1..keyLen' -> randStrCharList] :
          xorKeyBytes' \in genXorKey(keyLen', userCmd, rand)
    /\ UNCHANGED <<mutator, userCmd, sizePref, pc, raised, payload, encoded, env, stdout, hexState>>

\* mutate() after the search loop: cmdBytes, xorKey and data
XorEncode ==
    /\ pc = "search"
    /\ ~falsy(xorKeyBytes)
    /\ encoded' = [cmdBytes |-> xorBytes(userCmd, xorKeyBytes, keyLen),
                   xorKey |-> escapeQuotes(xorKeyBytes),
                   data |-> escapeQuotes(xorBytes(userCmd, xorKeyBytes, keyLen))]
    /\ pc' = "encoded"
    /\ UNCHANGED <<mutator, userCmd, sizePref, raised, payload, keyLen, xorKeyBytes, attempts, env, stdout, hexState>>

\* the rest of mutate(): the payload lines
XorEmit ==
    /\ pc = "encoded"
    /\ \E varOrder \in Perms(1..2) : \E escOrder \in Perms(1..4) :
          payload' = xorPayload(encoded.xorKey, encoded.data, varOrder, escOrder)
    /\ pc' = "built"
    /\ UNCHANGED <<mutator, userCmd, sizePref, raised, xorState, hexState>>

\* the target shell runs the two assignment lines of the payload
XorRunAssign ==
    /\ pc = "built"
    /\ env' = [cmdVar |-> assigned(payload, "cmdVar"), keyVar |-> assigned(payload, "keyVar")]
    /\ pc' = "assigned"
    /\ UNCHANGED <<mutator, userCmd, sizePref, raised, payload, keyLen, xorKeyBytes, attempts, encoded, stdout, hexState>>

\* the target shell runs the for loop of the payload
XorRunLoop ==
    /\ pc = "assigned"
    /\ stdout' = runLoop(payload, env)
    /\ pc' = "ran"
    /\ UNCHANGED <<mutator, userCmd, sizePref, raised, payload, keyLen, xorKeyBytes, attempts, encoded, env, hexState>>

\* the long commands: one repeated character
XorLongLen == 100

\* the commands and size preferences tried: every short command with every
\* preference, and long commands where the key stays short
XorInputs ==
    (SeqsUpTo(XorChars, MaxCmdLen) \X (1..3))
    \cup {<<Repeat(c, n), 2>> : c \in XorChars, n \in LongLen..LongLen}
    \cup {<<Repeat(c, n), 1>> : c \in XorChars, n \in XorLongLen..XorLongLen}

InitXor ==
    /\ mutator = "none"
    /\ \E in \in XorInputs : userCmd = in[1] /\ sizePref = in[2]
    /\ pc = "start"
    /\ raised = "none"
    /\ payload = <<>>
    /\ xorIdle
    /\ hexIdle

NextXor == XorStart \/ XorSearch \/ XorEncode \/ XorEmit \/ XorRunAssign \/ XorRunLoop

SpecXor == InitXor /\ [][NextXor]_vars

\* mutate() is sequential code that waits on nothing: once it is called its
\* search loop keeps running while its condition holds
FairSpecXor == SpecXor /\ WF_vars(XorStart) /\ WF_vars(XorSearch)

\* ------------------------------------------------- claims on XorNonNull
\* the characters of s
chars(s) == {s[k] : k \in 1..Len(s)}

\* genXorKey has returned a key
KeyFound == attempts # <<>> /\ xorKeyBytes # None

\* C2: a key returned by genXorKey differs at every position i from every
\* command character at positions i, i + keyLen, ..., so command[p] XOR
\* key[p mod keyLen] is never zero.
C2_KeyNeverYieldsNull ==
    KeyFound =>
        /\ Len(xorKeyBytes) = keyLen
        /\ \A i \in 0..(keyLen - 1) : \A p \in 0..(Len(userCmd) - 1) :
              p % keyLen = i => xorKeyBytes[i + 1] # userCmd[p + 1]
        /\ \A p \in 0..(Len(userCmd) - 1) :
              BitXor(userCmd[p + 1], xorKeyBytes[(p % keyLen) + 1]) # 0

\* a key shorter than a command that uses both characters keys are drawn from
C2_Witness ==
    /\ KeyFound
    /\ keyLen < Len(userCmd)
    /\ randStrCharList \subseteq chars(userCmd)

\* the first key length the claim expects genXorKey to be tried with
claimedFirstKeyLen(cmdLen, pref) ==
    IF pref = 1 THEN CeilDiv(cmdLen, 100) + 1
    ELSE IF pref = 2 THEN CeilDiv(cmdLen, 10) + 1
    ELSE cmdLen

\* C4 as stated: the first key length tried is ceil(len/100) + 1 for
\* sizePref 1, ceil(len/10) + 1 for sizePref 2 and len for sizePref 3.
C4_FirstKeyLenAsStated ==
    attempts # <<>> => attempts[1] = claimedFirstKeyLen(Len(userCmd), sizePref)

\* C4 amended: the first key length tried is floor(len/100) + 2 for sizePref
\* 1, floor(len/10) + 2 for sizePref 2 and len + 1 for sizePref 3.
C4_FirstKeyLen ==
    attempts # <<>> =>
        attempts[1] = (IF sizePref = 1 THEN (Len(userCmd) \div 100) + 2
                       ELSE IF sizePref = 2 THEN (Len(userCmd) \div 10) + 2
                       ELSE Len(userCmd) + 1)

\* a first attempt for a command long enough for len/100 to count
C4_Witness ==
    /\ attempts # <<>>
    /\ sizePref = 1
    /\ Len(userCmd) \div 100 >= 1

\* C5: running the emitted decode loop prints exactly the original command,
\* whatever order the four guard lines were placed in.
C5_RoundTrip == pc = "ran" => stdout = userCmd

\* a run where the cipher text and the key both hold a quote and a backslash
\* and the key repeats
C5_Witness ==
    /\ pc = "ran"
    /\ {SQ, BACKSLASH} \subseteq chars(env.cmdVar)
    /\ {SQ, BACKSLASH} \subseteq chars(env.keyVar)
    /\ keyLen < Len(userCmd)

\* each attempt of the key search is one longer than the one before
AttemptsConsecutive ==
    \A k \in 1..(Len(attempts) - 1) : attempts[k + 1] = attempts[k] + 1

\* C8: the key search tries key lengths each one more than the previous and,
\* for a command over the allowed characters, reaches a key and ends.
C8_KeySearchTerminates ==
    /\ []AttemptsConsecutive
    /\ (pc = "search" /\ chars(userCmd) \subseteq randStrCharList) ~> KeyFound

\* a command over the allowed characters whose search needed a second attempt
C8_Witness ==
    /\ pc = "built"
    /\ Len(attempts) >= 2
    /\ chars(userCmd) \subseteq randStrCharList

\* C10: genXorKey returns None exactly when some key position has a stride
\* that contains every allowed character, and a key of length keyLen
\* otherwise, whatever random key was drawn.
C10_NoneIffFullStride ==
    attempts # <<>> =>
        /\ (xorKeyBytes = None) <=>
              \E i \in 0..(keyLen - 1) :
                  randStrCharList \subseteq
                      {userCmd[p + 1] : p \in {q \in 0..(Len(userCmd) - 1) : q % keyLen = i}}
        /\ xorKeyBytes # None => Len(xorKeyBytes) = keyLen

\* an attempt that returned None
C10_Witness == attempts # <<>> /\ xorKeyBytes = None

\* --------------------------------------------------------------- HexHash
\* the length of a digest
DigestLen == 3

\* the hex digits a digest is made of
DigestDigits == {50, 51}

\* the characters of the commands handed to HexHash
HexChars == {34, 35}

\* one hex digit 0..15 as a character of "0123456789abcdef"
hexDigit(n) == IF n < 10 THEN CharZero + n ELSE 87 + n

\* str(bytes(ch, "utf-8").hex()) for an ASCII character
hexOf(ch) == <<hexDigit(ch \div 16), hexDigit(ch % 16)>>

\* the 0-based positions where needle occurs in hay
occurrences(hay, needle) ==
    {i \in 0..(Len(hay) - Len(needle)) : SubSeq(hay, i + 1, i + Len(needle)) = needle}

\* needle in hay
contains(hay, needle) == occurrences(hay, needle) # {}

\* hay.find(needle): the lowest position, or -1
find(hay, needle) ==
    IF occurrences(hay, needle) = {} THEN -1
    ELSE CHOOSE i \in occurrences(hay, needle) : \A j \in occurrences(hay, needle) : i <= j

\* cutRange that passes the 0-based index on to cut (a faulty variant)
cutRangeZeroBased(index) == <<index, index + 1>>

\* the byte range given to cut -b: {index + 1}-{index + 2}
cutRange(index) == <<index + 1, index + 2>>

HLine(op, seed, range) == [op |-> op, seed |-> seed, from |-> range[1], to |-> range[2]]

\* the next character of "for ch in userCmd": hexchar, randomhash = ""
HexNextChar ==
    /\ pc \in {"start", "emitted"}
    /\ hexPos < Len(userCmd)
    /\ mutator' = "HexHash"
    /\ hexPos' = hexPos + 1
    /\ randomhash' = <<>>
    /\ pc' = "searching"
    /\ UNCHANGED <<userCmd, sizePref, raised, payload, xorState, randomString, md5>>

\* one round of "while not hexchar in randomhash": a random string (here of
\* one character) and its digest, the same digest whenever the same string
\* is drawn again
HexDraw ==
    /\ pc = "searching"
    /\ ~contains(randomhash, hexOf(userCmd[hexPos]))
    /\ \E seed \in {<<c>> : c \in randStrCharList} :
        \E digest \in [1..DigestLen -> DigestDigits] :
            /\ seed \in DOMAIN md5 => digest = md5[seed]
            /\ randomString' = seed
            /\ randomhash' = digest
            /\ md5' = [t \in DOMAIN md5 \cup {seed} |-> IF t = seed THEN digest ELSE md5[t]]
    /\ UNCHANGED <<mutator, userCmd, sizePref, pc, raised, payload, xorState, hexPos>>

\* after the while loop: index and the payload line of the character
HexEmit ==
    /\ pc = "searching"
    /\ contains(randomhash, hexOf(userCmd[hexPos]))
    /\ payload' = Append(payload,
            HLine("hex", randomString, cutRange(find(randomhash, hexOf(userCmd[hexPos])))))
    /\ pc' = "emitted"
    /\ UNCHANGED <<mutator, userCmd, sizePref, raised, xorState, hexState>>

\* after the for loop: addJunk and getFinalPayload
HexFinish ==
    /\ pc \in {"start", "emitted"}
    /\ hexPos = Len(userCmd)
    /\ mutator' = "HexHash"
    /\ payload' = Append(payload, HLine("junk", <<>>, <<0, 0>>))
    /\ pc' = "done"
    /\ UNCHANGED <<userCmd, sizePref, raised, xorState, hexState>>

InitHex ==
    /\ mutator = "none"
    /\ userCmd \in SeqsUpTo(HexChars, MaxCmdLen)
    /\ sizePref \in 1..3
    /\ pc = "start"
    /\ raised = "none"
    /\ payload = <<>>
    /\ xorIdle
    /\ hexIdle

NextHex == HexNextChar \/ HexDraw \/ HexEmit \/ HexFinish

SpecHex == InitHex /\ [][NextHex]_vars

\* ----------------------------------------------------- claims on HexHash
\* what "printf %s 'seed' | md5sum | cut -b from-to" prints for a payload
\* line: bytes from..to (1-based) of the digest followed by "  -"
cutOutput(line) == SubSeq(md5[line.seed] \o <<32, 32, 45>>, line.from, line.to)

\* C6: the k-th payload line carries a seed and a 1-based range [p, p + 1]
\* such that characters p and p + 1 of the seed's digest are the two hex
\* digits of command[k]; the search loop is only left with such a seed.
C6_SliceIsTheByte ==
    /\ \A k \in 1..Len(payload) :
          payload[k].op = "hex" =>
              /\ k <= Len(userCmd)
              /\ payload[k].seed \in DOMAIN md5
              /\ payload[k].from >= 1
              /\ payload[k].to = payload[k].from + 1
              /\ payload[k].to <= DigestLen
              /\ cutOutput(payload[k]) = hexOf(userCmd[k])
    /\ pc = "emitted" =>
          /\ Len(payload) = hexPos
          /\ payload[hexPos].op = "hex"
          /\ contains(md5[randomString], hexOf(userCmd[hexPos]))
    /\ pc = "done" =>
          /\ Len(payload) = Len(userCmd) + 1
          /\ \A k \in 1..Len(userCmd) : payload[k].op = "hex"

\* a finished payload whose first line cuts the byte from the middle of the
\* digest and whose lines use different seeds
C6_Witness ==
    /\ mutator = "HexHash"
    /\ pc = "done"
    /\ Len(userCmd) >= 2
    /\ payload[1].from > 1
    /\ payload[1].seed # payload[2].seed

====
